---------------------------- MODULE Spec2Model ----------------------------
(***************************************************************************)
(* A model of reader.py of slop-grapher: load_files lists a folder, asks   *)
(* _detect_update whether the listing differs from the logged one, and     *)
(* either reads the cached table (data.feather) or rebuilds it with        *)
(* _reload_from_source: write the log, load / detect / normalize every     *)
(* file, concat, sort, drop duplicates, reset the index, write the cache.  *)
(*                                                                         *)
(* A file name is a sequence of tokens (pieces of text); the white-space   *)
(* tokens " " and "\n" are characters of their own, so that the log's      *)
(* text format (join with "\n", splitlines, strip) is modelled as what it  *)
(* does to the text.  A DataFrame is a record of its columns (in order),   *)
(* its row index and its rows (functions from column name to cell).        *)
(***************************************************************************)
EXTENDS Integers, Sequences, FiniteSets, TLC

VARIABLES
    listing,     \* what os.listdir(folder) returns now: a sequence of names
    pool,        \* the files this folder's history involves
    registry,    \* SCHEMA_REGISTRY, the ordered list of schemas
    tie,         \* how this build's sort orders rows of one Timestamp
    log,         \* filenames.txt: [exists, text]
    cache,       \* data.feather: [exists, columns, rows]
    pc,          \* where the process is: idle, load_files' steps, done
    files_list,  \* load_files' and _reload_from_source's local
    updated,     \* _detect_update's first result in this run
    i,           \* the position of _reload_from_source's loop (1-based)
    df_list,     \* the normalized tables collected so far
    result,      \* how this run of load_files ended: [status, error, df]
    prev,        \* how the run right before this one ended (no change between)
    log0,        \* filenames.txt when this run started
    cache0,      \* data.feather when this run started
    work,        \* this run's calls: [read, detect, normalize, logw, cachew]
    reported,    \* the names printed as "Failed to match" in this run
    probe,       \* the raw table handed to a function that is called alone
    detected,    \* what detect_schema_from_df answered for probe
    last         \* the run that ended before this one: [files, updated, result]

vars == <<listing, pool, registry, tie, log, cache, pc, files_list, updated, i,
          df_list, result, prev, log0, cache0, work, reported, probe, detected,
          last>>

----------------------------------------------------------------------------
(* Bounds of the model *)

\* The number of distinct files a folder's history involves.
MaxFiles == 2

\* The number of rows of a long-form table handed to the normalizer alone.
MaxRows == 3

\* The number of tokens of a name in the folders that try the log's format.
MaxTokens == 3

\* The longest registry detect_schema_from_df is tried on alone.
MaxRegistry == 3

----------------------------------------------------------------------------
(* Sequences *)

Range(s) == {s[k] : k \in DOMAIN s}

Min(a, b) == IF a <= b THEN a ELSE b

RECURSIVE Flatten(_)
Flatten(ss) == IF ss = <<>> THEN <<>> ELSE Head(ss) \o Flatten(Tail(ss))

\* The sequence s without its k-th member, and with x put in as its k-th.
RemoveAt(s, k) == SubSeq(s, 1, k - 1) \o SubSeq(s, k + 1, Len(s))

InsertAt(s, k, x) == SubSeq(s, 1, k - 1) \o <<x>> \o SubSeq(s, k, Len(s))

----------------------------------------------------------------------------
(* Cells and DataFrames *)

\* The missing-value marker of pandas (NaN / NaT).
NaN == "nan"

DataFrame(columns, index, rows) ==
    [columns |-> columns, index |-> index, rows |-> rows]

NoDf == DataFrame(<<>>, <<>>, <<>>)

\* RangeIndex(n): 0 .. n-1
RangeIndex(n) == [k \in 1..n |-> k - 1]

\* df.empty: some axis has length 0
IsEmpty(df) == Len(df.columns) = 0 \/ Len(df.rows) = 0

Ok(df) == [tag |-> "ok", df |-> df]
Raise(error) == [tag |-> "raise", error |-> error, df |-> NoDf]
ReturnsNone == [tag |-> "none", df |-> NoDf]

----------------------------------------------------------------------------
(* The text of the cells *)

\* Timestamps as the data loggers write them.
TS1 == "2024-01-01 00:00:01.0"
TS2 == "2024-01-01 00:00:02.0"
\* Digits in the right places, but no date: month 13, day 45.
TSBad == "2024-13-45 00:00:00.0"
\* TimeString of the long-form export.
LT1 == "01.01.2024 00:00:01"
LT2 == "01.01.2024 00:00:02"

\* Cells that read_csv parses to numbers (so they are no str objects).
NumberCells == {"0", "1", "2", "4", "5", "6", "7"}

IsStr(cell) == cell \notin NumberCells /\ cell # NaN

\* re.compile(r"^\d{4}-\d{2}-\d{2} \d{2}:\d{2}:\d{2}\.\d$").match(cell)
date_format_match(cell) == cell \in {TS1, TS2, TSBad}

\* The instants pd.to_datetime parses the known texts to (seconds of the day).
Instants == (TS1 :> 1) @@ (TS2 :> 2) @@ (LT1 :> 1) @@ (LT2 :> 2)

\* pd.to_datetime(column): every cell parsed, or the whole call raises.
to_datetime_raises(cells) == \E k \in DOMAIN cells : cells[k] \notin DOMAIN Instants

to_datetime(cell) == Instants[cell]

\* The lexicographic order of the texts that DataFrame.pivot sorts.
StrRank ==
    ("$RT_DIS$" :> 1) @@ ("01.01.2024 00:00:01" :> 2) @@ ("01.01.2024 00:00:02" :> 3)
    @@ ("Analog_PC_CIT101.Analog_out" :> 4) @@ ("Analog_PC_HFK101_UI.Analog_out" :> 5)
    @@ ("custom" :> 6)

----------------------------------------------------------------------------
(* The files *)

Files ==
    { <<"a", ".csv">>, <<"b", ".csv">>, <<"long", ".txt">>, <<"junk", ".csv">>,
      <<"empty", ".csv">>, <<"broken", ".csv">>, <<"notes", ".dat">>,
      <<"badts", ".csv">>, <<".DS_Store">>, <<" ", "pad", ".csv">> }

Salt == "Salt Conductivity (ms/cm)"
Volts == "PS Voltage (Volts)"

RawFile(format, columns, rows) ==
    [format |-> format, columns |-> columns, rows |-> rows]

WideRow(ts, col, v) == ("Timestamp" :> ts) @@ (col :> v)
LongRow(var, ts, v) == ("VarName" :> var) @@ ("TimeString" :> ts) @@ ("VarValue" :> v)

\* What is stored under each name: the encoding/format of the bytes and the
\* table a parser that can read them gets.
Content(name) ==
    CASE name = <<"a", ".csv">> ->
            RawFile("csv", <<"Timestamp", Salt>>,
                    << WideRow(TS2, Salt, "5"), WideRow(TS1, Salt, "4") >>)
      [] name = <<"b", ".csv">> ->
            RawFile("csv", <<"Timestamp", Volts>>, << WideRow(TS1, Volts, "7") >>)
      [] name = <<"long", ".txt">> ->
            RawFile("utf16tsv", <<"VarName", "TimeString", "VarValue">>,
                    << LongRow("Analog_PC_CIT101.Analog_out", LT1, "4"),
                       LongRow("$RT_DIS$", LT1, "0"),
                       LongRow("$RT_COUNT$", NaN, NaN) >>)
      [] name = <<"junk", ".csv">> ->
            RawFile("csv", <<"foo">>, << ("foo" :> "bar") >>)
      [] name = <<"empty", ".csv">> ->
            RawFile("csv", <<"Timestamp", Salt>>, << >>)
      [] name = <<"notes", ".dat">> ->
            RawFile("csv", <<"Timestamp", Salt>>, << WideRow(TS1, Salt, "4") >>)
      [] name = <<"badts", ".csv">> ->
            RawFile("csv", <<"Timestamp", Volts>>,
                    << WideRow(TS1, Volts, "7"), WideRow(TSBad, Volts, "6") >>)
      [] name = <<" ", "pad", ".csv">> ->
            RawFile("csv", <<"Timestamp", Salt>>,
                    << WideRow(TS1, Salt, "4"), WideRow(TS1, Salt, "7") >>)
      [] OTHER -> RawFile("binary", <<>>, <<>>)

----------------------------------------------------------------------------
(* _read_file *)

\* os.path.splitext(p)[1]: the last token when it is a suffix that starts
\* with a dot and is not the whole name.
splitext(name) ==
    IF Len(name) > 1 /\ name[Len(name)] \in {".csv", ".txt", ".dat", ".DS_Store"}
    THEN name[Len(name)] ELSE ""

\* pd.read_csv(p, nrows = n): UTF-8, delimiter inferred as ",".
read_csv(raw, nrows) ==
    IF raw.format = "csv"
    THEN LET n == Min(nrows, Len(raw.rows))
         IN  Ok(DataFrame(raw.columns, RangeIndex(n), SubSeq(raw.rows, 1, n)))
    ELSE Raise("UnicodeDecodeError")

\* pd.read_csv(p, delimiter = "\t", encoding = 'UTF-16', skipfooter = 1)
read_csv_utf16(raw) ==
    IF raw.format = "utf16tsv"
    THEN LET n == IF Len(raw.rows) > 0 THEN Len(raw.rows) - 1 ELSE 0
         IN  Ok(DataFrame(raw.columns, RangeIndex(n), SubSeq(raw.rows, 1, n)))
    ELSE Raise("UnicodeError")

\* nrows of the first .txt strategy
TxtRows == 4

_read_file(name) ==
    LET ext == splitext(name)
        raw == Content(name)
    IN  IF ext = ".txt"
        THEN LET first == read_csv(raw, TxtRows)
             IN  IF first.tag = "ok" THEN first ELSE read_csv_utf16(raw)
        ELSE IF ext = ".csv"
        THEN read_csv(raw, Len(raw.rows))
        ELSE ReturnsNone

----------------------------------------------------------------------------
(* Schemas *)

Schema(name, pred, normalizer) ==
    [name |-> name, predicate |-> pred, normalizer |-> normalizer]

\* df['Timestamp'][0]: the cell of the row labelled 0
FirstCell(df, col) ==
    LET k == CHOOSE k \in DOMAIN df.index : df.index[k] = 0 IN df.rows[k][col]

\* A predicate's outcome on a table: "true", "false" or "raise".
_schema_1_pred(df) ==
    IF Len(df.columns) < 1 THEN "raise"              \* IndexError
    ELSE IF df.columns[1] # "VarName" THEN "false"
    ELSE IF Len(df.columns) < 2 THEN "raise"         \* IndexError
    ELSE IF df.columns[2] # "TimeString" THEN "false"
    ELSE "true"

_schema_2_pred(df) ==
    IF "Timestamp" \notin Range(df.columns) THEN "raise"       \* KeyError
    ELSE IF 0 \notin Range(df.index) THEN "raise"              \* KeyError
    ELSE IF ~IsStr(FirstCell(df, "Timestamp")) THEN "raise"    \* TypeError
    ELSE IF date_format_match(FirstCell(df, "Timestamp")) THEN "true"
    ELSE "false"

\* schema.predicate(df), for the predicates of the registry and for the
\* two simplest predicates somebody may append to it.
predicate(schema, df) ==
    CASE schema.predicate = "_schema_1_pred" -> _schema_1_pred(df)
      [] schema.predicate = "_schema_2_pred" -> _schema_2_pred(df)
      [] schema.predicate = "lambda df: False" -> "false"
      [] OTHER -> "raise"

SCHEMA_REGISTRY ==
    << Schema("altasea iontech bl3t-25", "_schema_1_pred", "_schema_1_normalize"),
       Schema("degas system control datalog", "_schema_2_pred", "_schema_2_normalize") >>

\* Schemas with a predicate that never matches, and with one that is broken.
NeverSchema == Schema("never", "lambda df: False", "")
BrokenSchema == Schema("broken", "lambda df: 1 / 0", "")

----------------------------------------------------------------------------
(* detect_schema_from_df *)

\* The for loop from position k on: the position of the schema returned,
\* 0 for None.  -1 would be an exception leaving the function.
RECURSIVE detect_from(_, _, _)
detect_from(reg, df, k) ==
    IF k > Len(reg) THEN 0
    ELSE LET o == predicate(reg[k], df)
         IN  IF o = "raise" THEN detect_from(reg, df, k + 1)     \* except: continue
             ELSE IF o = "true" THEN k
             ELSE detect_from(reg, df, k + 1)

\* A faulty variant: the loop does not stop at the first match (the last one wins).
RECURSIVE last_match_from(_, _, _, _)
last_match_from(reg, df, k, found) ==
    IF k > Len(reg) THEN found
    ELSE last_match_from(reg, df, k + 1,
            IF predicate(reg[k], df) = "true" THEN k ELSE found)

detect_last_match(reg, df) == last_match_from(reg, df, 1, 0)

\* A faulty variant: no try/except around the predicate (its exception leaves, -1).
RECURSIVE unguarded_from(_, _, _)
unguarded_from(reg, df, k) ==
    IF k > Len(reg) THEN 0
    ELSE LET o == predicate(reg[k], df)
         IN  IF o = "raise" THEN -1
             ELSE IF o = "true" THEN k
             ELSE unguarded_from(reg, df, k + 1)

detect_unguarded(reg, df) == unguarded_from(reg, df, 1)

detect_schema_from_df(reg, df) == detect_from(reg, df, 1)

----------------------------------------------------------------------------
(* Normalizers *)

\* The members of the set S of texts, in ascending order.
RECURSIVE Sorted(_)
Sorted(S) ==
    IF S = {} THEN <<>>
    ELSE LET m == CHOOSE m \in S : \A x \in S : StrRank[m] <= StrRank[x]
         IN  <<m>> \o Sorted(S \ {m})

RenameMap ==
    ("Analog_PC_CIT101.Analog_out" :> "Salt Conductivity (ms/cm)")
    @@ ("Analog_PC_CIT102.Analog_out" :> "Acid Conductivity (ms/cm)")
    @@ ("Analog_PC_CIT103.Analog_out" :> "Base Conductivity (ms/cm)")
    @@ ("Analog_PC_HFK101_II.Analog_out" :> "PS Current (Amps)")
    @@ ("Analog_PC_HFK101_UI.Analog_out" :> "PS Voltage (Volts)")
    @@ ("Analog_PC_TI101.Analog_out" :> "Acid? Temperature (C)")
    @@ ("Analog_PC_TI102.Analog_out" :> "Base? Temperature (C)")
    @@ ("Analog_PC_TI103.Analog_out" :> "Salt? Temperature (C)")
    @@ ("Analog_PC_TI104.Analog_out" :> "Electrolyte? Temperature (C)")

\* df.rename(columns = RenameMap): names outside the map stay.
rename(col) == IF col \in DOMAIN RenameMap THEN RenameMap[col] ELSE col

\* df.pivot(index='TimeString', columns='VarName', values='VarValue'), then
\* rename, drop $RT_DIS$ and reset_index(names="Timestamp").
pivot_iontech(df) ==
    IF ~({"TimeString", "VarName", "VarValue"} \subseteq Range(df.columns))
    THEN Raise("KeyError")
    ELSE IF \E a, b \in DOMAIN df.rows :
                /\ a # b
                /\ df.rows[a]["TimeString"] = df.rows[b]["TimeString"]
                /\ df.rows[a]["VarName"] = df.rows[b]["VarName"]
    THEN Raise("ValueError")      \* Index contains duplicate entries
    ELSE
    LET times == Sorted({df.rows[k]["TimeString"] : k \in DOMAIN df.rows})
        names == Sorted({df.rows[k]["VarName"] : k \in DOMAIN df.rows})
        cell(t, v) ==
            IF \E k \in DOMAIN df.rows :
                    df.rows[k]["TimeString"] = t /\ df.rows[k]["VarName"] = v
            THEN LET k == CHOOSE k \in DOMAIN df.rows :
                              df.rows[k]["TimeString"] = t /\ df.rows[k]["VarName"] = v
                 IN  df.rows[k]["VarValue"]
            ELSE NaN
        kept == SelectSeq(names, LAMBDA v : v # "$RT_DIS$")
        cols == [k \in DOMAIN kept |-> rename(kept[k])]
    IN  IF "$RT_DIS$" \notin Range(names) THEN Raise("KeyError")
        ELSE IF "Timestamp" \in Range(cols) THEN Raise("ValueError")
        ELSE Ok(DataFrame(
                <<"Timestamp">> \o cols,
                RangeIndex(Len(times)),
                [r \in DOMAIN times |->
                    [c \in {"Timestamp"} \cup Range(cols) |->
                        IF c = "Timestamp" THEN times[r]
                        ELSE LET v == CHOOSE v \in Range(kept) : rename(v) = c
                             IN  cell(times[r], v)]]))

\* df['Timestamp'] = pd.to_datetime(df['Timestamp'])
parse_timestamps(df) ==
    IF "Timestamp" \notin Range(df.columns) THEN Raise("KeyError")
    ELSE IF to_datetime_raises([k \in DOMAIN df.rows |-> df.rows[k]["Timestamp"]])
    THEN Raise("ValueError")
    ELSE Ok([df EXCEPT !.rows =
                [k \in DOMAIN df.rows |->
                    [df.rows[k] EXCEPT !["Timestamp"] = to_datetime(@)]]])

_schema_1_normalize(df) ==
    LET wide == pivot_iontech(df)
    IN  IF wide.tag = "ok" THEN parse_timestamps(wide.df) ELSE wide

_schema_2_normalize(df) == parse_timestamps(df)

\* schema.normalizer(df)
normalizer(schema, df) ==
    IF schema.normalizer = "_schema_1_normalize" THEN _schema_1_normalize(df)
    ELSE _schema_2_normalize(df)

----------------------------------------------------------------------------
(* The ingestion log, filenames.txt *)

NoFile == [exists |-> FALSE, text |-> <<>>]

LineBreaks == {"\n"}
Whitespace == {" ", "\t", "\n"}

\* sep.join(names): the text of the names with sep between them
RECURSIVE Join(_, _)
Join(names, sep) ==
    IF names = <<>> THEN <<>>
    ELSE IF Len(names) = 1 THEN names[1]
    ELSE names[1] \o <<sep>> \o Join(Tail(names), sep)

\* text.splitlines(): cut at every line break; no empty last line.
RECURSIVE SplitFrom(_, _)
SplitFrom(text, line) ==
    IF text = <<>> THEN (IF line = <<>> THEN <<>> ELSE <<line>>)
    ELSE IF Head(text) \in LineBreaks THEN <<line>> \o SplitFrom(Tail(text), <<>>)
    ELSE SplitFrom(Tail(text), Append(line, Head(text)))

splitlines(text) == SplitFrom(text, <<>>)

\* line.strip(): without its leading and trailing white space
RECURSIVE lstrip(_)
lstrip(line) ==
    IF line # <<>> /\ Head(line) \in Whitespace THEN lstrip(Tail(line)) ELSE line

RECURSIVE rstrip(_)
rstrip(line) ==
    IF line # <<>> /\ line[Len(line)] \in Whitespace
    THEN rstrip(SubSeq(line, 1, Len(line) - 1)) ELSE line

strip(line) == rstrip(lstrip(line))

\* A faulty variant: blank lines are left out, the other lines are not stripped.
_read_logged_filenames_unstripped(file) ==
    IF ~file.exists THEN <<>>
    ELSE SelectSeq(splitlines(file.text), LAMBDA line : strip(line) # <<>>)

_read_logged_filenames(file) ==
    IF ~file.exists THEN <<>>
    ELSE LET lines == splitlines(file.text)
             kept == SelectSeq(lines, LAMBDA line : strip(line) # <<>>)
         IN  [k \in DOMAIN kept |-> strip(kept[k])]

\* What filenames.txt holds after _write_logged_filenames(names).
_write_logged_filenames(names) ==
    [exists |-> TRUE, text |-> Join(names, "\n") \o <<"\n">>]

\* A faulty variant: the listings are compared as sets of names.
_detect_update_as_sets(file, names) ==
    Range(_read_logged_filenames(file)) # Range(names)

\* _detect_update(names)[0]; its second result is only printed.
_detect_update(file, names) == _read_logged_filenames(file) # names

----------------------------------------------------------------------------
(* Merging: concat, sort_values, drop_duplicates, reset_index, the cache *)

\* The columns of the tables, each once, in the order of first appearance.
RECURSIVE UnionColumns(_, _)
UnionColumns(dfs, seen) ==
    IF dfs = <<>> THEN seen
    ELSE UnionColumns(Tail(dfs),
            seen \o SelectSeq(Head(dfs).columns, LAMBDA c : c \notin Range(seen)))

\* A faulty variant: the cells a table has no column for are filled with 0.
concat_zero_filled(dfs) ==
    IF dfs = <<>> THEN Raise("ValueError")
    ELSE
    LET columns == UnionColumns(dfs, <<>>)
        widen(df) ==
            [k \in DOMAIN df.rows |->
                [c \in Range(columns) |->
                    IF c \in DOMAIN df.rows[k] THEN df.rows[k][c] ELSE "0"]]
    IN  Ok(DataFrame(columns,
                     Flatten([k \in DOMAIN dfs |-> dfs[k].index]),
                     Flatten([k \in DOMAIN dfs |-> widen(dfs[k])])))

\* pd.concat(dfs, join='outer')
concat(dfs) ==
    IF dfs = <<>> THEN Raise("ValueError")        \* No objects to concatenate
    ELSE
    LET columns == UnionColumns(dfs, <<>>)
        widen(df) ==
            [k \in DOMAIN df.rows |->
                [c \in Range(columns) |->
                    IF c \in DOMAIN df.rows[k] THEN df.rows[k][c] ELSE NaN]]
    IN  Ok(DataFrame(columns,
                     Flatten([k \in DOMAIN dfs |-> dfs[k].index]),
                     Flatten([k \in DOMAIN dfs |-> widen(dfs[k])])))

\* The rows of df taken in the order `order` (a sequence of positions).
Take(df, order) ==
    [df EXCEPT !.index = [k \in DOMAIN order |-> df.index[order[k]]],
               !.rows = [k \in DOMAIN order |-> df.rows[order[k]]]]

\* sort_values sorts with quicksort, which is not stable: where the rows of
\* one Timestamp end up is the build's choice.  Two builds are modelled: one
\* keeps them in their order, one turns them round.
TieOrders == {"stable", "reversed"}

\* The positions S in the order of ascending Timestamp.
RECURSIVE AscendingOrder(_, _, _)
AscendingOrder(df, S, ties) ==
    IF S = {} THEN <<>>
    ELSE LET before(a, b) ==
                 \/ df.rows[a]["Timestamp"] < df.rows[b]["Timestamp"]
                 \/ /\ df.rows[a]["Timestamp"] = df.rows[b]["Timestamp"]
                    /\ IF ties = "stable" THEN a <= b ELSE a >= b
             m == CHOOSE m \in S : \A x \in S : before(m, x)
         IN  <<m>> \o AscendingOrder(df, S \ {m}, ties)

\* df.sort_values(by='Timestamp')
sort_values(df, ties) ==
    IF "Timestamp" \notin Range(df.columns) THEN Raise("KeyError")
    ELSE Ok(Take(df, AscendingOrder(df, DOMAIN df.rows, ties)))

\* A faulty variant: no row is dropped.
drop_nothing(df) == df

\* A faulty variant: drop_duplicates(subset=['Timestamp']), one row per instant.
drop_by_timestamp(df) ==
    LET positions == [k \in DOMAIN df.rows |-> k]
        first(k) == \A j \in 1..(k - 1) :
                        df.rows[j]["Timestamp"] # df.rows[k]["Timestamp"]
    IN  Take(df, SelectSeq(positions, first))

\* df.drop_duplicates(): of rows equal in every column the first stays
drop_duplicates(df) ==
    LET positions == [k \in DOMAIN df.rows |-> k]
        first(k) == \A j \in 1..(k - 1) : df.rows[j] # df.rows[k]
    IN  Take(df, SelectSeq(positions, first))

\* df.reset_index(drop=True)
reset_index(df) == [df EXCEPT !.index = RangeIndex(Len(df.rows))]

NoCache == [exists |-> FALSE, columns |-> <<>>, rows |-> <<>>]

\* A faulty variant: the table is added to the rows data.feather holds.
to_feather_patched(df) ==
    IF df.index # RangeIndex(Len(df.rows)) THEN Raise("ValueError")
    ELSE [tag |-> "ok",
          file |-> [exists |-> TRUE,
                    columns |-> df.columns,
                    rows |-> SelectSeq(cache.rows,
                                       LAMBDA r : DOMAIN r = Range(df.columns))
                             \o df.rows]]

\* df.to_feather('data.feather'): the file it leaves; feather stores no
\* index and refuses a table whose index is not the default one.
to_feather(df) ==
    IF df.index # RangeIndex(Len(df.rows)) THEN Raise("ValueError")
    ELSE [tag |-> "ok",
          file |-> [exists |-> TRUE, columns |-> df.columns, rows |-> df.rows]]

\* A faulty variant: a missing data.feather reads as a table without rows.
read_feather_or_empty(file) ==
    IF ~file.exists THEN Ok(DataFrame(<<>>, <<>>, <<>>))
    ELSE Ok(DataFrame(file.columns, RangeIndex(Len(file.rows)), file.rows))

\* pd.read_feather('data.feather')
read_feather(file) ==
    IF ~file.exists THEN Raise("FileNotFoundError")
    ELSE Ok(DataFrame(file.columns, RangeIndex(Len(file.rows)), file.rows))

----------------------------------------------------------------------------
(* One file of _reload_from_source's loop *)

\* '.DS_Store' in file
IsArtifact(name) == \E k \in DOMAIN name : name[k] = ".DS_Store"

Step(tag, df, error, report, calls) ==
    [tag |-> tag, df |-> df, error |-> error, report |-> report, calls |-> calls]

\* A faulty variant: line 130 is missing, artifacts go to the loader too.
process_file_with_artifacts(reg, name) ==
    LET r == _read_file(name)
    IN  IF r.tag = "raise" THEN Step("raise", NoDf, r.error, FALSE, <<1, 0, 0>>)
        ELSE IF r.tag = "none"
        THEN Step("raise", NoDf, "AttributeError", FALSE, <<1, 0, 0>>)
        ELSE IF IsEmpty(r.df) THEN Step("skip", NoDf, "", FALSE, <<1, 0, 0>>)
        ELSE
        LET k == detect_schema_from_df(reg, r.df)
        IN  IF k = 0 THEN Step("skip", NoDf, "", TRUE, <<1, 1, 0>>)
            ELSE IF reg[k].normalizer = ""
            THEN Step("append", r.df, "", FALSE, <<1, 1, 0>>)
            ELSE
            LET n == normalizer(reg[k], r.df)
            IN  IF n.tag = "raise"
                THEN Step("raise", NoDf, n.error, FALSE, <<1, 1, 1>>)
                ELSE Step("append", n.df, "", FALSE, <<1, 1, 1>>)

\* A faulty variant: a file the loader cannot read is skipped like an empty one.
process_file_lenient(reg, name) ==
    IF IsArtifact(name) THEN Step("skip", NoDf, "", FALSE, <<0, 0, 0>>)
    ELSE
    LET r == _read_file(name)
    IN  IF r.tag # "ok" \/ IsEmpty(r.df) THEN Step("skip", NoDf, "", FALSE, <<1, 0, 0>>)
        ELSE
        LET k == detect_schema_from_df(reg, r.df)
        IN  IF k = 0 THEN Step("skip", NoDf, "", TRUE, <<1, 1, 0>>)
            ELSE IF reg[k].normalizer = ""
            THEN Step("append", r.df, "", FALSE, <<1, 1, 0>>)
            ELSE
            LET n == normalizer(reg[k], r.df)
            IN  IF n.tag = "raise"
                THEN Step("raise", NoDf, n.error, FALSE, <<1, 1, 1>>)
                ELSE Step("append", n.df, "", FALSE, <<1, 1, 1>>)

\* A faulty variant: a file that matches no schema ends the run.
process_file_strict(reg, name) ==
    IF IsArtifact(name) THEN Step("skip", NoDf, "", FALSE, <<0, 0, 0>>)
    ELSE
    LET r == _read_file(name)
    IN  IF r.tag = "raise" THEN Step("raise", NoDf, r.error, FALSE, <<1, 0, 0>>)
        ELSE IF r.tag = "none"
        THEN Step("raise", NoDf, "AttributeError", FALSE, <<1, 0, 0>>)
        ELSE IF IsEmpty(r.df) THEN Step("skip", NoDf, "", FALSE, <<1, 0, 0>>)
        ELSE
        LET k == detect_schema_from_df(reg, r.df)
        IN  IF k = 0 THEN Step("raise", NoDf, "ValueError", TRUE, <<1, 1, 0>>)
            ELSE IF reg[k].normalizer = ""
            THEN Step("append", r.df, "", FALSE, <<1, 1, 0>>)
            ELSE
            LET n == normalizer(reg[k], r.df)
            IN  IF n.tag = "raise"
                THEN Step("raise", NoDf, n.error, FALSE, <<1, 1, 1>>)
                ELSE Step("append", n.df, "", FALSE, <<1, 1, 1>>)

\* The loop body for one name: "skip" (continue), "append" (df joins df_list)
\* or "raise" (the exception leaves _reload_from_source), whether the name is
\* printed as failed to match, and the calls made: <<read, detect, normalize>>.
process_file(reg, name) ==
    IF IsArtifact(name) THEN Step("skip", NoDf, "", FALSE, <<0, 0, 0>>)
    ELSE
    LET r == _read_file(name)
    IN  IF r.tag = "raise" THEN Step("raise", NoDf, r.error, FALSE, <<1, 0, 0>>)
        ELSE IF r.tag = "none"                    \* None has no attribute empty
        THEN Step("raise", NoDf, "AttributeError", FALSE, <<1, 0, 0>>)
        ELSE IF IsEmpty(r.df) THEN Step("skip", NoDf, "", FALSE, <<1, 0, 0>>)
        ELSE
        LET k == detect_schema_from_df(reg, r.df)
        IN  IF k = 0 THEN Step("skip", NoDf, "", TRUE, <<1, 1, 0>>)
            ELSE IF reg[k].normalizer = ""
            THEN Step("append", r.df, "", FALSE, <<1, 1, 0>>)
            ELSE
            LET n == normalizer(reg[k], r.df)
            IN  IF n.tag = "raise"
                THEN Step("raise", NoDf, n.error, FALSE, <<1, 1, 1>>)
                ELSE Step("append", n.df, "", FALSE, <<1, 1, 1>>)

----------------------------------------------------------------------------
(* The state and its actions *)

NoResult == [status |-> "none", error |-> "", df |-> NoDf]
Returned(df) == [status |-> "returned", error |-> "", df |-> df]
Raised(error) == [status |-> "raised", error |-> error, df |-> NoDf]

\* The process was killed before load_files returned or raised.
Crashed == [status |-> "crashed", error |-> "", df |-> NoDf]

NoWork == [read |-> 0, detect |-> 0, normalize |-> 0, logw |-> 0, cachew |-> 0]

\* What is remembered of a run that ended: its listing, what _detect_update
\* said, and how it ended.
Run(files, upd, res) == [files |-> files, updated |-> upd, result |-> res]
NoRun == Run(<<>>, FALSE, NoResult)

Pools == {S \in SUBSET Files : Cardinality(S) = MaxFiles}

Init ==
    /\ listing = <<>>
    /\ pool \in Pools
    /\ registry = SCHEMA_REGISTRY
    /\ tie \in TieOrders
    /\ log = NoFile
    /\ cache = NoCache
    /\ pc = "idle"
    /\ files_list = <<>>
    /\ updated = FALSE
    /\ i = 0
    /\ df_list = <<>>
    /\ result = NoResult
    /\ prev = NoResult
    /\ log0 = NoFile
    /\ cache0 = NoCache
    /\ work = NoWork
    /\ reported = <<>>
    /\ probe = NoDf
    /\ detected = 0
    /\ last = NoRun

\* Somebody puts a file into the folder; the directory read may return it
\* at any place of the listing.
AddFile(name, k) ==
    /\ pc = "idle"
    /\ name \in pool
    /\ name \notin Range(listing)
    /\ k \in 1..(Len(listing) + 1)
    /\ listing' = InsertAt(listing, k, name)
    /\ UNCHANGED <<pool, registry, tie, log, cache, pc, files_list, updated, i, df_list,
                   result, prev, log0, cache0, work, reported, probe, detected, last>>

\* Somebody removes a file from the folder.
RemoveFile(k) ==
    /\ pc = "idle"
    /\ k \in DOMAIN listing
    /\ listing' = RemoveAt(listing, k)
    /\ UNCHANGED <<pool, registry, tie, log, cache, pc, files_list, updated, i, df_list,
                   result, prev, log0, cache0, work, reported, probe, detected, last>>

\* A faulty variant: line 160 is live, every run reloads from the source.
load_files_reload_always ==
    /\ pc \in {"idle", "done"}
    /\ files_list' = listing
    /\ updated' = _detect_update(log, listing)
    /\ pc' = "reload"
    /\ prev' = IF pc = "done" THEN result ELSE NoResult
    /\ result' = NoResult
    /\ log0' = log
    /\ cache0' = cache
    /\ work' = NoWork
    /\ reported' = <<>>
    /\ i' = 0
    /\ df_list' = <<>>
    /\ last' = IF pc = "done" THEN Run(files_list, updated, result) ELSE last
    /\ UNCHANGED <<listing, pool, registry, tie, log, cache, probe, detected>>

\* load_files up to its branch: os.listdir and _detect_update.  Called in a
\* new process (idle) or right after the run before (done), in which case
\* nothing changed in between.
load_files ==
    /\ pc \in {"idle", "done"}
    /\ files_list' = listing
    /\ updated' = _detect_update(log, listing)
    /\ pc' = IF updated' THEN "reload" ELSE "read_feather"
    /\ prev' = IF pc = "done" THEN result ELSE NoResult
    /\ result' = NoResult
    /\ log0' = log
    /\ cache0' = cache
    /\ work' = NoWork
    /\ reported' = <<>>
    /\ i' = 0
    /\ df_list' = <<>>
    /\ last' = IF pc = "done" THEN Run(files_list, updated, result) ELSE last
    /\ UNCHANGED <<listing, pool, registry, tie, log, cache, probe, detected>>

\* else: df = pd.read_feather('data.feather'); return df
load_files_cached ==
    /\ pc = "read_feather"
    /\ LET r == read_feather(cache)
       IN  result' = IF r.tag = "ok" THEN Returned(r.df) ELSE Raised(r.error)
    /\ pc' = "done"
    /\ UNCHANGED <<listing, pool, registry, tie, log, cache, files_list, updated, i,
                   df_list, prev, log0, cache0, work, reported, probe, detected, last>>

\* A faulty variant: the log is not written before the loop.
reload_without_log ==
    /\ pc = "reload"
    /\ i' = 1
    /\ df_list' = <<>>
    /\ pc' = "loop"
    /\ UNCHANGED <<listing, pool, registry, tie, log, cache, files_list, updated,
                   result, prev, log0, cache0, work, reported, probe, detected, last>>

\* _reload_from_source, its first statement: _write_logged_filenames
reload_write_log ==
    /\ pc = "reload"
    /\ log' = _write_logged_filenames(files_list)
    /\ work' = [work EXCEPT !.logw = @ + 1]
    /\ i' = 1
    /\ df_list' = <<>>
    /\ pc' = "loop"
    /\ UNCHANGED <<listing, pool, registry, tie, cache, files_list, updated, result,
                   prev, log0, cache0, reported, probe, detected, last>>

\* A faulty variant: the loop stores what it has collected after every file.
loop_writes_eager ==
    /\ log' = log
    /\ cache' = IF df_list' = <<>> THEN cache
                ELSE LET c == concat(df_list').df
                     IN  [exists |-> TRUE, columns |-> c.columns, rows |-> c.rows]

\* What the loop body does to the two persisted files: nothing.
loop_writes == UNCHANGED <<log, cache>>

\* _reload_from_source, one turn of its loop
reload_file ==
    /\ pc = "loop"
    /\ i <= Len(files_list)
    /\ LET st == process_file(registry, files_list[i])
       IN  /\ work' = [work EXCEPT !.read = @ + st.calls[1],
                                   !.detect = @ + st.calls[2],
                                   !.normalize = @ + st.calls[3]]
           /\ reported' = IF st.report THEN Append(reported, files_list[i])
                          ELSE reported
           /\ IF st.tag = "raise"
              THEN /\ result' = Raised(st.error)
                   /\ pc' = "done"
                   /\ i' = 0
                   /\ df_list' = <<>>
              ELSE /\ df_list' = IF st.tag = "append" THEN Append(df_list, st.df)
                                 ELSE df_list
                   /\ i' = i + 1
                   /\ UNCHANGED <<result, pc>>
    /\ loop_writes
    /\ UNCHANGED <<listing, pool, registry, tie, files_list, updated, prev, log0,
                   cache0, probe, detected, last>>

\* Lines 147-150 on the collected tables: the table, or the exception.
merge(dfs, ties) ==
    LET c == concat(dfs)
    IN  IF c.tag = "raise" THEN c
        ELSE LET s == sort_values(c.df, ties)
             IN  IF s.tag = "raise" THEN s
                 ELSE Ok(reset_index(drop_duplicates(s.df)))

\* A faulty variant: lines 147-152 stand inside the loop, so the function
\* merges, stores and returns after the first file.
reload_finish_in_loop ==
    /\ pc = "loop"
    /\ i > Min(1, Len(files_list))
    /\ LET m == merge(df_list, tie)
           w == IF m.tag = "ok" THEN to_feather(m.df) ELSE m
       IN  IF w.tag = "ok"
           THEN /\ cache' = w.file
                /\ work' = [work EXCEPT !.cachew = @ + 1]
                /\ result' = Returned(m.df)
           ELSE /\ result' = Raised(w.error)
                /\ UNCHANGED <<cache, work>>
    /\ pc' = "done"
    /\ i' = 0
    /\ df_list' = <<>>
    /\ UNCHANGED <<listing, pool, registry, tie, log, files_list, updated, prev, log0,
                   cache0, reported, probe, detected, last>>

\* _reload_from_source after its loop: concat, sort_values, drop_duplicates,
\* reset_index, to_feather, return
reload_finish ==
    /\ pc = "loop"
    /\ i > Len(files_list)
    /\ LET m == merge(df_list, tie)
           w == IF m.tag = "ok" THEN to_feather(m.df) ELSE m
       IN  IF w.tag = "ok"
           THEN /\ cache' = w.file
                /\ work' = [work EXCEPT !.cachew = @ + 1]
                /\ result' = Returned(m.df)
           ELSE /\ result' = Raised(w.error)
                /\ UNCHANGED <<cache, work>>
    /\ pc' = "done"
    /\ i' = 0
    /\ df_list' = <<>>
    /\ UNCHANGED <<listing, pool, registry, tie, log, files_list, updated, prev, log0,
                   cache0, reported, probe, detected, last>>

\* The process ends: what load_files returned or raised is gone from it.
Exit ==
    /\ pc = "done"
    /\ pc' = "idle"
    /\ files_list' = <<>>
    /\ updated' = FALSE
    /\ result' = NoResult
    /\ prev' = NoResult
    /\ log0' = NoFile
    /\ cache0' = NoCache
    /\ work' = NoWork
    /\ reported' = <<>>
    /\ last' = Run(files_list, updated, result)
    /\ UNCHANGED <<listing, pool, registry, tie, log, cache, i, df_list, probe, detected>>

\* The process is killed inside the loop of _reload_from_source: after the
\* log was written, before the cache is.
Crash ==
    /\ pc = "loop"
    /\ pc' = "idle"
    /\ files_list' = <<>>
    /\ updated' = FALSE
    /\ i' = 0
    /\ df_list' = <<>>
    /\ result' = NoResult
    /\ prev' = NoResult
    /\ log0' = NoFile
    /\ cache0' = NoCache
    /\ work' = NoWork
    /\ reported' = <<>>
    /\ last' = Run(files_list, updated, Crashed)
    /\ UNCHANGED <<listing, pool, registry, tie, log, cache, probe, detected>>

Next ==
    \/ \E name \in Files, k \in 1..(MaxFiles + 1) : AddFile(name, k)
    \/ \E k \in 1..MaxFiles : RemoveFile(k)
    \/ load_files
    \/ load_files_cached
    \/ reload_write_log
    \/ reload_file
    \/ reload_finish
    \/ Exit

Spec == Init /\ [][Next]_vars

----------------------------------------------------------------------------
(* The same program in a folder where a run may be killed                   *)

\* The files of such a folder: two that yield tables (the name of one has
\* white space in front), one the loader cannot read, an artifact of the OS.
CrashFiles ==
    { <<"a", ".csv">>, <<" ", "pad", ".csv">>, <<"broken", ".csv">>, <<".DS_Store">> }

\* The history involves one file more: the one whose ingestion is cut short.
CrashPools == {S \in SUBSET CrashFiles : Cardinality(S) = MaxFiles + 1}

InitCrash ==
    /\ listing = <<>>
    /\ pool \in CrashPools
    /\ registry = SCHEMA_REGISTRY
    /\ tie \in TieOrders
    /\ log = NoFile
    /\ cache = NoCache
    /\ pc = "idle"
    /\ files_list = <<>>
    /\ updated = FALSE
    /\ i = 0
    /\ df_list = <<>>
    /\ result = NoResult
    /\ prev = NoResult
    /\ log0 = NoFile
    /\ cache0 = NoCache
    /\ work = NoWork
    /\ reported = <<>>
    /\ probe = NoDf
    /\ detected = 0
    /\ last = NoRun

NextCrash ==
    \/ \E name \in CrashFiles, k \in 1..(MaxFiles + 2) : AddFile(name, k)
    \/ \E k \in 1..(MaxFiles + 1) : RemoveFile(k)
    \/ load_files
    \/ load_files_cached
    \/ reload_write_log
    \/ reload_file
    \/ reload_finish
    \/ Exit
    \/ Crash

SpecCrash == InitCrash /\ [][NextCrash]_vars

----------------------------------------------------------------------------
(* detect_schema_from_df alone, on any registry                            *)

\* The schemas a registry is made of here.
Schemas == Range(SCHEMA_REGISTRY) \cup {NeverSchema, BrokenSchema}

RECURSIVE SeqsUpTo(_, _)
SeqsUpTo(S, n) ==
    IF n = 0 THEN {<<>>}
    ELSE LET shorter == SeqsUpTo(S, n - 1)
         IN  shorter \cup {Append(q, x) : q \in {q \in shorter : Len(q) = n - 1}, x \in S}

Registries == SeqsUpTo(Schemas, MaxRegistry)

OneRow(columns, row) == DataFrame(columns, <<0>>, <<row>>)

\* Raw tables: what the loader makes of the files, and tables on which both
\* predicates of the registry match, raise or answer no.
ProbeTables ==
    { _read_file(name).df : name \in {f \in Files : _read_file(f).tag = "ok"} }
    \cup
    { OneRow(<<"VarName", "TimeString", "Timestamp">>,
             ("VarName" :> "custom") @@ ("TimeString" :> LT1) @@ ("Timestamp" :> TS1)),
      OneRow(<<"VarName">>, ("VarName" :> "custom")),
      OneRow(<<"Timestamp">>, ("Timestamp" :> "5")),
      OneRow(<<"Timestamp">>, ("Timestamp" :> "n/a")) }

InitDetect ==
    /\ listing = <<>>
    /\ pool = {}
    /\ registry \in Registries
    /\ tie = "stable"
    /\ log = NoFile
    /\ cache = NoCache
    /\ pc = "idle"
    /\ files_list = <<>>
    /\ updated = FALSE
    /\ i = 0
    /\ df_list = <<>>
    /\ result = NoResult
    /\ prev = NoResult
    /\ log0 = NoFile
    /\ cache0 = NoCache
    /\ work = NoWork
    /\ reported = <<>>
    /\ probe = NoDf
    /\ detected = 0
    /\ last = NoRun

\* detect_schema_from_df(df) is called with the registry as it is.
Detect(df) ==
    /\ probe' = df
    /\ detected' = detect_schema_from_df(registry, df)
    /\ UNCHANGED <<listing, pool, registry, tie, log, cache, pc, files_list, updated, i,
                   df_list, result, prev, log0, cache0, work, reported, last>>

NextDetect == \E df \in ProbeTables : Detect(df)

SpecDetect == InitDetect /\ [][NextDetect]_vars

----------------------------------------------------------------------------
(* _schema_1_normalize alone, on any long-form table                       *)

\* Long-form rows: a mapped variable, an unmapped one and the placeholder
\* of the hardware, at two instants, with two values.
LongRows ==
    { LongRow(var, ts, v) :
        var \in {"Analog_PC_CIT101.Analog_out", "custom", "$RT_DIS$"},
        ts \in {LT1, LT2},
        v \in {"4", "0"} }

LongTables ==
    { DataFrame(<<"VarName", "TimeString", "VarValue">>, RangeIndex(Len(rows)), rows) :
        rows \in SeqsUpTo(LongRows, MaxRows) }

InitNormalize ==
    /\ listing = <<>>
    /\ pool = {}
    /\ registry = SCHEMA_REGISTRY
    /\ tie = "stable"
    /\ log = NoFile
    /\ cache = NoCache
    /\ pc = "idle"
    /\ files_list = <<>>
    /\ updated = FALSE
    /\ i = 0
    /\ df_list = <<>>
    /\ result = NoResult
    /\ prev = NoResult
    /\ log0 = NoFile
    /\ cache0 = NoCache
    /\ work = NoWork
    /\ reported = <<>>
    /\ probe \in LongTables
    /\ detected = 0
    /\ last = NoRun

\* _schema_1_normalize(df) is called on the table: what it returns or raises.
Normalize ==
    /\ result = NoResult
    /\ LET n == _schema_1_normalize(probe)
       IN  result' = IF n.tag = "ok" THEN Returned(n.df) ELSE Raised(n.error)
    /\ UNCHANGED <<listing, pool, registry, tie, log, cache, pc, files_list, updated, i,
                   df_list, prev, log0, cache0, work, reported, probe, detected, last>>

NextNormalize == Normalize

SpecNormalize == InitNormalize /\ [][NextNormalize]_vars

----------------------------------------------------------------------------
(* The log's format, on any names                                          *)

\* Names made of a letter, a blank and a line break, the empty name among
\* them, and the listings of none, one and two such names.
LogNames == SeqsUpTo({"a", " ", "\n"}, MaxTokens)

LogListings ==
    {<<>>} \cup {<<n>> : n \in LogNames} \cup {<<n, m>> : n, m \in LogNames}

InitLog ==
    /\ listing \in LogListings
    /\ pool = {}
    /\ registry = SCHEMA_REGISTRY
    /\ tie = "stable"
    /\ log = NoFile
    /\ cache = NoCache
    /\ pc = "idle"
    /\ files_list = <<>>
    /\ updated = FALSE
    /\ i = 0
    /\ df_list = <<>>
    /\ result = NoResult
    /\ prev = NoResult
    /\ log0 = NoFile
    /\ cache0 = NoCache
    /\ work = NoWork
    /\ reported = <<>>
    /\ probe = NoDf
    /\ detected = 0
    /\ last = NoRun

\* Runs of load_files, one after the other, over the listing as it is: no
\* name of these is a file the loader reads, so a reload ends at its first.
NextLog ==
    \/ load_files
    \/ load_files_cached
    \/ reload_write_log
    \/ reload_file
    \/ Exit

SpecLog == InitLog /\ [][NextLog]_vars

----------------------------------------------------------------------------
(* Claims *)

\* The positions of the registry whose predicate is true / raises on probe.
Hits == {k \in DOMAIN registry : predicate(registry[k], probe) = "true"}
Raisers == {k \in DOMAIN registry : predicate(registry[k], probe) = "raise"}

\* C2: detect_schema_from_df returns the first schema in registration order
\* whose predicate is true on the table, and None exactly when no predicate
\* is true; a later matching schema is never returned when an earlier one
\* matches.
C2_FirstMatch ==
    /\ (detected = 0) <=> (Hits = {})
    /\ Hits # {} => (detected \in Hits /\ \A k \in Hits : detected <= k)

\* C2's case: two schemas match the table and the earlier one is returned.
C2_Witness ==
    \E j, k \in Hits : j < k /\ detected = j /\ registry[j] # registry[k]

\* C3: a schema whose predicate raises counts as one whose predicate returns
\* false: replacing it by such a schema gives the same result, no exception
\* leaves detect_schema_from_df, and a later schema is still matched.
C3_PredicateFailureIsolated ==
    /\ detected >= 0
    /\ \A k \in Raisers :
          detect_schema_from_df([registry EXCEPT ![k] = NeverSchema], probe) = detected
    /\ \A k \in Hits :
          (\A j \in 1..(k - 1) : j \notin Hits) => detected = k

\* C3's case: a predicate raised and a schema registered after it is returned.
C3_Witness ==
    \E j \in Raisers : detected > j /\ probe # NoDf

----------------------------------------------------------------------------
(* What a name of the listing is to the loop of _reload_from_source *)

Finished == pc = "done"

\* The loader gives a table with rows: the file reaches schema detection.
Detectable(name) ==
    /\ ~IsArtifact(name)
    /\ _read_file(name).tag = "ok"
    /\ ~IsEmpty(_read_file(name).df)

Matched(name) ==
    Detectable(name) /\ detect_schema_from_df(registry, _read_file(name).df) > 0

Unmatched(name) ==
    Detectable(name) /\ detect_schema_from_df(registry, _read_file(name).df) = 0

Normalized(name) ==
    normalizer(registry[detect_schema_from_df(registry, _read_file(name).df)],
               _read_file(name).df)

LoaderFails(name) == ~IsArtifact(name) /\ _read_file(name).tag # "ok"

NormalizerRaises(name) == Matched(name) /\ Normalized(name).tag = "raise"

Fatal(name) == LoaderFails(name) \/ NormalizerRaises(name)

\* The name comes back from the log as it was written: it is not blank, has
\* no white space at either end and no line break.
ReadsBack(name) ==
    /\ name # <<>>
    /\ Head(name) \notin Whitespace
    /\ name[Len(name)] \notin Whitespace
    /\ \A k \in DOMAIN name : name[k] \notin LineBreaks

SameSequence(a, b) == Len(a) = Len(b) /\ \A k \in DOMAIN a : a[k] = b[k]

NoCalls == work.read = 0 /\ work.detect = 0 /\ work.normalize = 0

----------------------------------------------------------------------------
(* C1 *)

\* C1: when load_files is run twice in succession with no file change in
\* between (and the first run returns a table), both runs return the same
\* table, and the second run reports unchanged and performs no file load,
\* schema detection or normalization.
C1_AsClaimed ==
    (Finished /\ prev.status = "returned") =>
        /\ result.status = "returned"
        /\ result.df = prev.df
        /\ ~updated
        /\ NoCalls

\* What does hold of two runs in succession: the second returns the table
\* of the first, and takes the fast path when every name of the listing
\* reads back from the log as it was written.
FastPathWhenNamesReadBack ==
    (Finished /\ prev.status = "returned") =>
        /\ result.status = "returned"
        /\ result.df = prev.df
        /\ (\A k \in DOMAIN files_list : ReadsBack(files_list[k])) =>
              (~updated /\ NoCalls /\ work.logw = 0 /\ work.cachew = 0)

----------------------------------------------------------------------------
(* C4 *)

\* C4: _detect_update reports unchanged if and only if the listing read from
\* the log (the empty sequence when there is no log) is element-wise
\* identical, in the same order, to the current listing.
C4_ExactSequenceEquality ==
    pc # "idle" =>
        LET previous == IF log0.exists THEN _read_logged_filenames(log0) ELSE <<>>
        IN  (~updated) <=> SameSequence(previous, files_list)

\* C4's case: the log holds [x, y], the folder lists [y, x]: changed.
C4_Witness ==
    /\ pc # "idle"
    /\ updated
    /\ Len(files_list) = 2
    /\ _read_logged_filenames(log0) = <<files_list[2], files_list[1]>>

----------------------------------------------------------------------------
(* C5 *)

\* C5: when a run of load_files ends with an exception, no cache write has
\* happened in it: data.feather is what it was when the run started.
C5_AbortLeavesCache ==
    (Finished /\ result.status = "raised") => (cache = cache0 /\ work.cachew = 0)

\* C5's case: a run over a changed listing stopped at its second file, after
\* a table was collected, with a cache of an earlier run in place.
C5_Witness ==
    /\ Finished
    /\ result.status = "raised"
    /\ updated
    /\ Len(files_list) = 2
    /\ Matched(files_list[1]) /\ ~Fatal(files_list[1])
    /\ Fatal(files_list[2])
    /\ cache0.exists /\ cache0.rows # <<>>
    /\ cache = cache0

----------------------------------------------------------------------------
(* C6 *)

\* The text of filenames.txt that lists the names, one per line.
LinesOf(names) ==
    IF names = <<>> THEN <<"\n">>
    ELSE Flatten([k \in DOMAIN names |-> names[k] \o <<"\n">>])

\* C6, as claimed: when a run ends with an exception, the listing persisted
\* in the log is the one persisted before the run.
C6_AsClaimed ==
    (Finished /\ result.status = "raised") =>
        _read_logged_filenames(log) = _read_logged_filenames(log0)

\* C6, amended: when a run that detected a change ends with an exception,
\* the log has been written once, before any file was loaded, and holds the
\* current listing; only a run that detected no change leaves the log as it
\* was.
C6_AbortLeavesNewLog ==
    /\ (Finished /\ result.status = "raised" /\ updated) =>
          (log.exists /\ log.text = LinesOf(files_list) /\ work.logw = 1)
    /\ (Finished /\ result.status = "raised" /\ ~updated) =>
          (log = log0 /\ work.logw = 0)
    /\ (pc = "loop" \/ (Finished /\ updated)) => work.logw = 1
    /\ pc = "reload" => (work.logw = 0 /\ work.read = 0)

\* C6's case: a run over a changed listing was stopped by a fatal file, and
\* the log, which held another listing, now holds the current one.
C6_Witness ==
    /\ Finished
    /\ result.status = "raised"
    /\ updated
    /\ \E k \in DOMAIN files_list : Fatal(files_list[k])
    /\ log0.exists
    /\ _read_logged_filenames(log0) # files_list
    /\ _read_logged_filenames(log) = files_list

----------------------------------------------------------------------------
(* C7 *)

\* C7, as claimed: when the listing has changed and no file yields a
\* normalized table (none, or only artifacts, empty tables and unmatched
\* files), load_files returns an empty table and stores it in the cache.
C7_AsClaimed ==
    ( /\ Finished
      /\ updated
      /\ \A k \in DOMAIN files_list :
            process_file(registry, files_list[k]).tag = "skip" ) =>
        /\ result.status = "returned"
        /\ result.df.rows = <<>>
        /\ cache.exists
        /\ cache.rows = <<>>

----------------------------------------------------------------------------
(* C8 *)

----------------------------------------------------------------------------
(* C9 *)

\* The names of the listing that match no schema, in order.
UnmatchedOf(names) == SelectSeq(names, Unmatched)

\* Row r of the result is a row of the normalized table of a matched file,
\* with the missing marker in the columns that table does not have.
FromMatchedFile(r, names) ==
    \E k \in DOMAIN names :
        /\ Matched(names[k])
        /\ Normalized(names[k]).tag = "ok"
        /\ \E row \in Range(Normalized(names[k]).df.rows) :
              \A c \in DOMAIN r : r[c] = IF c \in DOMAIN row THEN row[c] ELSE NaN

NoMatchSkipped ==
    /\ result.status = "returned"
    /\ reported = UnmatchedOf(files_list)
    /\ \A r \in Range(result.df.rows) : FromMatchedFile(r, files_list)

----------------------------------------------------------------------------
(* C10 *)

\* C10: after every successful run with a changed listing, the returned and
\* cached table has its rows in ascending Timestamp order, no two of its
\* rows are equal in every column, and its index is 0, 1, 2, ...
C10_CanonicalTable ==
    (Finished /\ updated /\ result.status = "returned") =>
        LET rows == result.df.rows
        IN  /\ \A a, b \in DOMAIN rows :
                  a < b => rows[a]["Timestamp"] <= rows[b]["Timestamp"]
            /\ \A a, b \in DOMAIN rows : a # b => rows[a] # rows[b]
            /\ \A a \in DOMAIN rows : result.df.index[a] = a - 1
            /\ Len(result.df.index) = Len(rows)
            /\ cache.exists /\ cache.rows = rows /\ cache.columns = result.df.columns

\* C10's case: two files hold the same row and rows out of order.
C10_Witness ==
    /\ Finished
    /\ updated
    /\ result.status = "returned"
    /\ work.normalize = 2
    /\ Len(result.df.rows) = 2
    /\ result.df.rows[1]["Timestamp"] < result.df.rows[2]["Timestamp"]
    /\ \E j, k \in DOMAIN files_list :
          /\ j # k
          /\ Range(Normalized(files_list[j]).df.rows)
                \cap Range(Normalized(files_list[k]).df.rows) # {}

----------------------------------------------------------------------------
(* C11 *)

\* The normalized tables of the names that match a schema, in listing order:
\* what the loop collects when no file is fatal.
NormalizedTables(names) ==
    LET m == SelectSeq(names, Matched)
    IN  [k \in DOMAIN m |-> Normalized(m[k]).df]

\* All rows of the normalized tables, widened to the union of the columns.
AllRows(names) == concat(NormalizedTables(names)).df.rows

\* C11: after a successful run with a changed listing, the rows of the
\* result are the distinct rows of the concatenation of all normalized
\* tables, each once: rows of one Timestamp that differ in a measurement are
\* all kept, rows equal in every column are collapsed to one.
C11_OnlyFullRowDuplicatesDropped ==
    (Finished /\ updated /\ result.status = "returned") =>
        /\ Range(result.df.rows) = Range(AllRows(files_list))
        /\ Len(result.df.rows) = Cardinality(Range(AllRows(files_list)))

\* C11's case: two files hold an identical row, which the result holds once,
\* and two rows of one Timestamp that differ, which the result both holds.
C11_Witness ==
    /\ Finished
    /\ updated
    /\ result.status = "returned"
    /\ Len(AllRows(files_list)) > Len(result.df.rows)
    /\ \E j, k \in DOMAIN files_list :
          /\ j # k
          /\ Range(Normalized(files_list[j]).df.rows)
                \cap Range(Normalized(files_list[k]).df.rows) # {}
    /\ \E a, b \in DOMAIN result.df.rows :
          /\ a # b
          /\ result.df.rows[a]["Timestamp"] = result.df.rows[b]["Timestamp"]

----------------------------------------------------------------------------
(* C12 *)

\* The row of a table with the columns cols: its own cells, and the missing
\* marker where the table has no such column.
Widened(row, cols) == [c \in cols |-> IF c \in DOMAIN row THEN row[c] ELSE NaN]

\* C12: after a successful run with a changed listing, the columns of the
\* result are the union of the columns of all normalized tables, and its
\* rows are the rows of these tables, each with the missing marker (not 0,
\* not an empty text) in every column its table lacks.
C12_OuterJoin ==
    (Finished /\ updated /\ result.status = "returned") =>
        LET tables == NormalizedTables(files_list)
            cols == UNION {Range(tables[k].columns) : k \in DOMAIN tables}
        IN  /\ Range(result.df.columns) = cols
            /\ Len(result.df.columns) = Cardinality(cols)
            /\ Range(result.df.rows) =
                  {Widened(row, cols) : row \in UNION {Range(tables[k].rows) :
                                                          k \in DOMAIN tables}}
            /\ \A k \in DOMAIN tables : \A row \in Range(tables[k].rows) :
                  \A c \in cols \ Range(tables[k].columns) :
                      Widened(row, cols)[c] \notin {"0", ""}

\* C12's case: one file has no column for a measurement another file has a
\* value of at the same Timestamp; its row holds the missing marker there.
C12_Witness ==
    /\ Finished
    /\ updated
    /\ result.status = "returned"
    /\ \E a, b \in DOMAIN result.df.rows :
       \E c \in Range(result.df.columns) \ {"Timestamp"} :
          /\ result.df.rows[a]["Timestamp"] = result.df.rows[b]["Timestamp"]
          /\ result.df.rows[a][c] = NaN
          /\ result.df.rows[b][c] \notin {NaN, "0", ""}
          /\ \E k \in DOMAIN files_list :
                /\ Matched(files_list[k])
                /\ c \notin Range(Normalized(files_list[k]).df.columns)

----------------------------------------------------------------------------
(* C13 *)

\* The times and the variables of a long-form table.
TimesOf(df) == {df.rows[k]["TimeString"] : k \in DOMAIN df.rows}
VarsOf(df) == {df.rows[k]["VarName"] : k \in DOMAIN df.rows}

\* At most one value for every pair of a time and a variable.
OneValuePerPair(df) ==
    \A a, b \in DOMAIN df.rows :
        ( /\ df.rows[a]["TimeString"] = df.rows[b]["TimeString"]
          /\ df.rows[a]["VarName"] = df.rows[b]["VarName"] ) => a = b

\* The placeholder column that the normalizer drops.
Placeholders == {"$RT_DIS$"}

\* The wide table holds the long table: one row per time, one column per
\* variable that is no placeholder, under its readable name, and in every
\* cell the value of its triple.
WideOf(long, wide) ==
    /\ Len(wide.rows) = Cardinality(TimesOf(long))
    /\ {wide.rows[k]["Timestamp"] : k \in DOMAIN wide.rows}
          = {to_datetime(t) : t \in TimesOf(long)}
    /\ Range(wide.columns)
          = {"Timestamp"} \cup {rename(v) : v \in VarsOf(long) \ Placeholders}
    /\ \A k \in DOMAIN long.rows :
          long.rows[k]["VarName"] \notin Placeholders =>
              \E r \in DOMAIN wide.rows :
                  /\ wide.rows[r]["Timestamp"] = to_datetime(long.rows[k]["TimeString"])
                  /\ wide.rows[r][rename(long.rows[k]["VarName"])]
                        = long.rows[k]["VarValue"]

\* C13, as claimed: for every long-form table with at most one value per
\* (time, variable) pair, the long-form normalizer returns exactly one row
\* per distinct time with one column per distinct variable (renamed through
\* the lookup table, unmapped names kept), each cell holding the value of
\* its triple.  The placeholder column may be dropped.
C13_AsClaimed ==
    (result.status # "none" /\ probe.rows # <<>> /\ OneValuePerPair(probe)) =>
        (result.status = "returned" /\ WideOf(probe, result.df))

\* What does hold: the claim for the tables that have the placeholder among
\* their variables; every other table makes the normalizer raise KeyError.
WideWhenPlaceholderPresent ==
    (result.status # "none" /\ OneValuePerPair(probe)) =>
        IF Placeholders \subseteq VarsOf(probe)
        THEN result.status = "returned" /\ WideOf(probe, result.df)
        ELSE result = Raised("KeyError")

----------------------------------------------------------------------------
(* C14 *)

\* The table built from the files of a listing alone.
Rebuilt(names) == merge(NormalizedTables(names), tie).df

\* C14: after every successful run that detected a change, data.feather
\* holds the table rebuilt from the files of the current listing only,
\* whatever it held before: every row of it is a row of a current file.
C14_FullReplacement ==
    (Finished /\ updated /\ result.status = "returned") =>
        /\ cache.exists
        /\ cache.columns = Rebuilt(files_list).columns
        /\ cache.rows = Rebuilt(files_list).rows
        /\ \A r \in Range(cache.rows) : FromMatchedFile(r, files_list)

\* C14's case: the cache held rows of a file that is gone; none of them is
\* in the cache the run wrote.
C14_Witness ==
    /\ Finished
    /\ updated
    /\ result.status = "returned"
    /\ cache0.exists
    /\ cache0.rows # <<>>
    /\ cache.rows # <<>>
    /\ Range(cache0.rows) \cap Range(cache.rows) = {}

----------------------------------------------------------------------------
(* C15 *)

\* The names of the listing that the loop hands to the loader.
Loaded(names) == SelectSeq(names, LAMBDA name : ~IsArtifact(name))

\* C15: in every run the log is written, with the current listing, before
\* the first file is loaded, and the cache is written only after every file
\* of the listing has been processed: no load comes before the log write
\* and none after the cache write.
C15_WriteOrdering ==
    /\ pc = "reload" => (work.read = 0 /\ work.logw = 0 /\ log = log0)
    /\ work.read > 0 =>
          (work.logw = 1 /\ log = _write_logged_filenames(files_list))
    /\ pc \in {"reload", "loop"} => (work.cachew = 0 /\ cache = cache0)
    /\ work.cachew > 0 =>
          /\ Finished
          /\ work.cachew = 1
          /\ work.logw = 1
          /\ work.read = Len(Loaded(files_list))

\* C15's case: a run that detected a change loaded two files and wrote both
\* the log and the cache.
C15_Witness ==
    /\ Finished
    /\ updated
    /\ work.read = 2
    /\ work.logw = 1
    /\ work.cachew = 1
    /\ log # log0
    /\ cache # cache0

----------------------------------------------------------------------------
(* C16 *)

\* The run before this one detected a change and stopped after the log
\* write and before the cache write (killed, or ended by an exception), and
\* this run finds the folder with the same listing.
AfterStoppedRun ==
    /\ last.updated
    /\ last.result.status \in {"raised", "crashed"}
    /\ pc # "idle"
    /\ last.files = files_list

\* The fast path was taken: nothing parsed, nothing written.
FastPath ==
    /\ ~updated
    /\ NoCalls
    /\ work.logw = 0 /\ work.cachew = 0
    /\ log = log0 /\ cache = cache0

\* C16, as claimed: after such a stopped run, the next run over the same
\* folder reports unchanged and returns the old cached table without
\* parsing any file.
C16_AsClaimed ==
    (Finished /\ AfterStoppedRun) =>
        /\ FastPath
        /\ result.status = "returned"
        /\ result.df = read_feather(cache0).df

\* C16, amended: after such a stopped run, when every name of the listing
\* reads back from the log as written, the next run over the same folder
\* reports unchanged and parses no file: it returns the old cached table
\* when there is one and raises FileNotFoundError when there is none, and
\* leaves log and cache as they are, so every later run over the same
\* listing ends the same way.  When a name does not read back, the next run
\* reports changed and reloads.
C16_CrashWindow ==
    /\ AfterStoppedRun =>
          (updated <=> \E k \in DOMAIN files_list : ~ReadsBack(files_list[k]))
    /\ (Finished /\ AfterStoppedRun /\ ~updated) =>
          /\ FastPath
          /\ result = IF cache0.exists THEN Returned(read_feather(cache0).df)
                       ELSE Raised("FileNotFoundError")
    /\ (Finished /\ AfterStoppedRun /\ updated) => work.logw = 1
    /\ ( /\ Finished
         /\ ~last.updated
         /\ last.result.status \in {"returned", "raised"}
         /\ last.files = files_list ) =>
          (FastPath /\ result = last.result)

\* C16's case: a run over a changed listing was killed; the next run, over
\* the same listing, returns the table the cache held before, which is not
\* the table of the current files.
C16_Witness ==
    /\ Finished
    /\ AfterStoppedRun
    /\ last.result.status = "crashed"
    /\ ~updated
    /\ result.status = "returned"
    /\ \A k \in DOMAIN files_list : Matched(files_list[k]) /\ ~Fatal(files_list[k])
    /\ result.df.rows # Rebuilt(files_list).rows

----------------------------------------------------------------------------
(* C17 *)

\* The run found no names in the folder and none in the log: there is no
\* filenames.txt, or it holds blank lines only.
NothingListed ==
    /\ pc # "idle"
    /\ files_list = <<>>
    /\ (~log0.exists \/ _read_logged_filenames(log0) = <<>>)

\* C17: with no log (or an empty one) and an empty directory listing,
\* _detect_update reports unchanged and load_files reads the cache without
\* writing the log or the cache; with no cache the run raises instead of
\* returning an empty table.
C17_EmptyFolderTakesFastPath ==
    /\ NothingListed => (~updated /\ pc \in {"read_feather", "done"})
    /\ (Finished /\ NothingListed) =>
          /\ FastPath
          /\ result = IF cache0.exists THEN Returned(read_feather(cache0).df)
                       ELSE Raised("FileNotFoundError")

\* C17's case: the first run ever, over an empty folder: no log, no cache,
\* the run raises and leaves neither file behind.
C17_Witness ==
    /\ Finished
    /\ NothingListed
    /\ ~log0.exists
    /\ ~cache0.exists
    /\ result = Raised("FileNotFoundError")
    /\ ~log.exists
    /\ ~cache.exists

\* The other case: the log holds a blank line, the cache an older table.
EmptyLogOldCache ==
    /\ Finished
    /\ NothingListed
    /\ log0.exists
    /\ cache0.exists
    /\ result.status = "returned"

----------------------------------------------------------------------------
(* C18 *)

AllReadBack(names) == \A k \in DOMAIN names : ReadsBack(names[k])

\* C18: a listing written by _write_logged_filenames reads back as the
\* same sequence exactly when none of its names is blank, has white space
\* at an end or holds a line break; when the log holds the current listing
\* and one of its names is such a name, the run reports changed and reloads
\* from the source, and reports unchanged otherwise.
C18_LogRoundTrip ==
    /\ work.logw = 1 =>
          /\ log = _write_logged_filenames(files_list)
          /\ (_read_logged_filenames(log) = files_list) <=> AllReadBack(files_list)
    /\ (pc # "idle" /\ log0 = _write_logged_filenames(files_list)) =>
          /\ updated <=> ~AllReadBack(files_list)
          /\ updated => (pc \in {"reload", "loop"} \/ work.logw = 1)
          /\ ~updated => (pc \in {"read_feather", "done"} /\ NoCalls)

\* C18's case: the run before this one wrote this very listing to the log;
\* one of its names holds a line break, another reads back, and the run
\* reports changed again.
C18_Witness ==
    /\ pc = "loop"
    /\ updated
    /\ last.updated
    /\ last.files = files_list
    /\ log0 = _write_logged_filenames(files_list)
    /\ \E j, k \in DOMAIN files_list :
          /\ ReadsBack(files_list[j])
          /\ \E t \in DOMAIN files_list[k] : files_list[k][t] \in LineBreaks
          /\ files_list[k][1] \notin Whitespace
          /\ files_list[k][Len(files_list[k])] \notin Whitespace

----------------------------------------------------------------------------
(* C19 *)

\* Between the run before and this one only artifacts came or went: the
\* other names are the same, in the same order.
ArtifactOnlyChange ==
    /\ pc # "idle"
    /\ last.result.status # "none"
    /\ last.files # files_list
    /\ Loaded(last.files) = Loaded(files_list)

\* The loop has handed to the loader the names before position k that are
\* no artifacts, and only these.
OnlyLoadedRead ==
    /\ pc = "loop" => work.read = Len(Loaded(SubSeq(files_list, 1, i - 1)))
    /\ (Finished /\ updated /\ result.status = "returned") =>
          work.read = Len(Loaded(files_list))
    /\ \A k \in DOMAIN reported : ~IsArtifact(reported[k])

\* A full reload that succeeded: log and cache written, every file read.
FullReload ==
    /\ updated
    /\ result.status = "returned"
    /\ work.logw = 1 /\ work.cachew = 1
    /\ log = _write_logged_filenames(files_list)
    /\ work.read = Len(Loaded(files_list))

\* C19, as claimed: artifacts are never loaded but are part of the listing
\* that is compared and logged; when only an artifact is added or removed
\* between two runs, the second reports changed, reloads everything, and
\* its table equals the table of the run before.
C19_AsClaimed ==
    /\ OnlyLoadedRead
    /\ ArtifactOnlyChange => updated
    /\ (Finished /\ ArtifactOnlyChange /\ last.result.status = "returned") =>
          (FullReload /\ result.df = last.result.df)

\* The table is what a reload of the listing returns: no file of it is
\* fatal, and the table is the merge of its normalized tables.
TableOf(names, df) ==
    /\ \A k \in DOMAIN names : ~Fatal(names[k])
    /\ df = Rebuilt(names)

\* C19, amended: the same, for a run before whose table was the table of
\* its own listing (a successful reload, or a cache that was not stale).
C19_ArtifactsOnlyFingerprint ==
    /\ OnlyLoadedRead
    /\ ArtifactOnlyChange => updated
    /\ ( /\ Finished
         /\ ArtifactOnlyChange
         /\ last.result.status = "returned"
         /\ TableOf(last.files, last.result.df) ) =>
          (FullReload /\ result.df = last.result.df)

\* C19's case: an artifact was added to a folder whose file had been
\* ingested; the run reloads and returns the same table.
C19_Witness ==
    /\ Finished
    /\ ArtifactOnlyChange
    /\ last.updated
    /\ last.result.status = "returned"
    /\ \E k \in DOMAIN files_list :
          IsArtifact(files_list[k]) /\ files_list[k] \notin Range(last.files)
    /\ FullReload
    /\ result.df = last.result.df
    /\ result.df.rows # <<>>

============================================================================
